---- MODULE Spec2Model ----
(***************************************************************************)
(* Render graph construction/execution and the view-cache keys             *)
(* (src/src/rg/graph.rs), the framebuffer cache and the render-pass        *)
(* attachment descriptors (src/src/backend/shader.rs) of kajiya, and the   *)
(* egui backend (src/crates/lib/kajiya-egui/src/egui_backend.rs).          *)
(*                                                                         *)
(* Option<T> is modelled as a sequence of length <= 1: << >> is None and   *)
(* <<x>> is Some(x).  Vec indices are 0-based in the source and 1-based in *)
(* TLA+ sequences: element i of a Vec is seq[i + 1].                       *)
(***************************************************************************)
EXTENDS Integers, Sequences, FiniteSets, TLC

\* ---------------------------------------------------------------- bounds
MaxPasses == 2
MaxRes == 2
MaxRefs == 2
MaxPipes == 1
MaxColors == 1
MaxCalls == 2
MaxViewCalls == 3
MaxMods == 4
MaxEguiCalls == 5

\* ------------------------------------------------------------ value sets
\* vk_sync::AccessType values: the one reads are declared with, the one writes are
ReadAccessTypes == {"ComputeShaderReadSampledImageOrUniformTexelBuffer"}
WriteAccessTypes == {"ComputeShaderWrite"}
ImageDescs == {"ImageDesc"}
PipelineDescs == {"ComputePipelineDesc"}
ClosureErrors == {"ErrA", "ErrB"}

None == << >>
Some(x) == <<x>>
IsSome(o) == Len(o) = 1
Unwrap(o) == o[1]

Max(a, b) == IF a >= b THEN a ELSE b

\* GraphRawResourceHandle { id: u32, version: u32 }
Handle(id, version) == [id |-> id, version |-> version]
HandleInputs == {Handle(i, 0) : i \in 0..(MaxRes - 1)}

\* PassResourceRef { handle, access }
ReadRefInputs == [handle : HandleInputs, access : ReadAccessTypes]
WriteRefInputs == [handle : HandleInputs, access : WriteAccessTypes]

SeqsUpTo(S, n) == UNION {[1..k -> S] : k \in 0..n}

\* RecordedPass { read, write, render_fn }; render_fn holds the identity of
\* the closure (filled in when the pass is committed).
RecordedPassDefault == [read |-> << >>, write |-> << >>, render_fn |-> None]
RecordedPassInputs ==
    {in \in [read : SeqsUpTo(ReadRefInputs, MaxRefs),
             write : SeqsUpTo(WriteRefInputs, MaxRefs),
             has_fn : BOOLEAN] :
        Len(in.read) + Len(in.write) <= MaxRefs}

\* GraphResourceCreateInfo { desc, create_pass_idx }
GraphResourceCreateInfoInputs ==
    [desc : ImageDescs, create_pass_idx : 0..(MaxPasses - 1)]

VARIABLES
    passes,             \* RenderGraph.passes
    resources,          \* RenderGraph.resources
    compute_pipelines,  \* RenderGraph.compute_pipelines
    builder,            \* Option<PassBuilder>: the builder add_pass returned last
    issued,             \* create_raw_resource calls in order: the handle returned, the info given
    commits,            \* number of record_pass calls so far
    status,             \* position of the graph: building, phases of execute, outcome
    resource_lifetimes, \* Option<Vec<ResourceLifetime>> computed by execute
    gpu_resources,      \* execute's gpu_resources
    resolved_pipelines, \* execute's compute_pipelines (resolved handles)
    resource_registry,  \* Option<ResourceRegistry>
    pass_iter,          \* number of passes the loop of execute has consumed
    transitions,        \* access list gathered for the pass being run
    log,                \* device calls, pipeline-cache calls and closure invocations
    result              \* Option<error> returned by execute

VARIABLES
    color_attachment_desc, \* FramebufferCache.color_attachment_desc
    depth_attachment_desc, \* FramebufferCache.depth_attachment_desc
    render_pass,           \* FramebufferCache.render_pass
    entries,               \* FramebufferCache.entries: the map behind the mutex
    lock,                  \* Option<thread>: the holder of the mutex of entries
    t_pc,                  \* per thread: its position in get_or_create
    t_key,                 \* per thread: Option<key> of the call it is in
    t_entry,               \* per thread: Option<framebuffer> it created
    t_device_calls,        \* per thread: create_framebuffer calls of the call it is in
    calls,                 \* the calls that ended, in the order they released the mutex
    framebuffers           \* the device: the fbo_desc of every framebuffer it created

VARIABLES
    image_views,           \* ViewCache.image_views: the entries of the map behind the mutex
    view_calls             \* the view-cache lookups that ended, in order

VARIABLES
    att_desc,              \* a RenderPassAttachmentDesc under construction
    att_mods               \* the modifiers applied to it since new(), in order

cacheVars == <<color_attachment_desc, depth_attachment_desc, render_pass, entries, lock,
               t_pc, t_key, t_entry, t_device_calls, calls, framebuffers>>

rgVars == <<passes, resources, compute_pipelines, builder, issued, commits, status,
            resource_lifetimes, gpu_resources, resolved_pipelines, resource_registry,
            pass_iter, transitions, log, result>>

VARIABLES
    gfx,                   \* EguiBackendInner.gfx: Option<GfxResources>
    egui_pipeline,         \* egui_renderer.has_pipeline()
    images,                \* number of egui textures created so far
    ui_frame,              \* ui_renderer.ui_frame: Option<(closure, target image)>
    egui_log               \* the calls on the backend and the runs of a stored closure, in order

viewVars == <<image_views, view_calls>>

eguiVars == <<gfx, egui_pipeline, images, ui_frame, egui_log>>

attVars == <<att_desc, att_mods>>

vars == <<rgVars, cacheVars, viewVars, attVars, eguiVars>>

\* ------------------------------------------------ framebuffer cache values
MAX_COLOR_ATTACHMENTS == 8
Threads == {"t1", "t2"}
Formats == {"R16G16B16A16_SFLOAT"}
DepthFormats == {"D24_UNORM_S8_UINT"}
Dims == {<<1280, 720>>, <<1920, 1080>>}
\* (vk::ImageUsageFlags, vk::ImageCreateFlags) of one colour attachment
ColorAttachmentInputs == {<<"COLOR_ATTACHMENT", "MUTABLE_FORMAT">>}

\* RenderPassAttachmentDesc::new(format)
RenderPassAttachmentDesc(format) ==
    [format |-> format, load_op |-> "LOAD", store_op |-> "STORE", samples |-> "TYPE_1"]

\* FramebufferCacheKey { dims, color_attachments, use_depth_stencil }
FramebufferCacheKeyInputs ==
    [dims : Dims,
     color_attachments : SeqsUpTo(ColorAttachmentInputs, MaxColors),
     use_depth_stencil : BOOLEAN]

\* RenderGraph::new()
InitGraph ==
    /\ passes = << >>
    /\ resources = << >>
    /\ compute_pipelines = << >>
    /\ builder = None
    /\ issued = << >>
    /\ commits = 0
    /\ status = "building"
    /\ resource_lifetimes = None
    /\ gpu_resources = << >>
    /\ resolved_pipelines = << >>
    /\ resource_registry = None
    /\ pass_iter = 0
    /\ transitions = << >>
    /\ log = << >>
    /\ result = None

\* FramebufferCache::new(render_pass, color_attachments, depth_attachment)
InitCache(colors, depth) ==
    /\ Len(colors) <= MAX_COLOR_ATTACHMENTS
    /\ color_attachment_desc = colors
    /\ depth_attachment_desc = depth
    /\ render_pass = "render_pass"
    /\ entries = [k \in {} |-> 0]
    /\ lock = None
    /\ t_pc = [t \in Threads |-> "idle"]
    /\ t_key = [t \in Threads |-> None]
    /\ t_entry = [t \in Threads |-> None]
    /\ t_device_calls = [t \in Threads |-> 0]
    /\ calls = << >>
    /\ framebuffers = << >>

\* ViewCache::default()
InitView ==
    /\ image_views = << >>
    /\ view_calls = << >>

\* RenderPassAttachmentDesc::new(format)
InitAttachment(format) ==
    /\ att_desc = RenderPassAttachmentDesc(format)
    /\ att_mods = << >>

\* EguiBackend::new: gfx: None; ui_renderer.ui_frame starts empty
InitEgui ==
    /\ gfx = None
    /\ egui_pipeline = FALSE
    /\ images = 0
    /\ ui_frame = None
    /\ egui_log = << >>

Init ==
    /\ InitGraph
    /\ InitCache(<< >>, None)
    /\ InitView
    /\ InitAttachment("R16G16B16A16_SFLOAT")
    /\ InitEgui

\* ------------------------------------------------- graph construction
\* an id taken after the push
NewResourceIdAfterPush(res) == Len(res) + 1

\* create_raw_resource: id of the handle it returns, self.resources.len() as u32
\* (the cast truncates only from 2^32 records on, far beyond MaxRes)
NewResourceId(res) == Len(res)

\* create_raw_resource(info)
CreateRawResource(info) ==
    /\ status = "building"
    /\ Len(resources) < MaxRes
    /\ issued' = Append(issued, [handle |-> Handle(NewResourceId(resources), 0),
                                 info |-> info])
    /\ resources' = Append(resources, info)
    /\ UNCHANGED <<cacheVars, viewVars, attVars, eguiVars>>
    /\ UNCHANGED <<passes, compute_pipelines, builder, commits, status,
                   resource_lifetimes, gpu_resources, resolved_pipelines,
                   resource_registry, pass_iter, transitions, log, result>>

\* an index taken as if the pass were already recorded
NewPassIdxAfterPush(ps) == Len(ps) + 1

\* add_pass: let pass_idx = self.passes.len()
NewPassIdx(ps) == Len(ps)

\* add_pass()
AddPass ==
    /\ status = "building"
    /\ builder' = Some([pass_idx |-> NewPassIdx(passes), pass |-> RecordedPassDefault])
    /\ UNCHANGED <<cacheVars, viewVars, attVars, eguiVars>>
    /\ UNCHANGED <<passes, resources, compute_pipelines, issued, commits, status,
                   resource_lifetimes, gpu_resources, resolved_pipelines,
                   resource_registry, pass_iter, transitions, log, result>>

\* a record_pass that inserts at the front
PushPassFront(ps, pass) == <<pass>> \o ps

\* record_pass: self.passes.push(pass)
PushPass(ps, pass) == Append(ps, pass)

\* record_pass(pass); the closure the caller bound, if any, is a fresh one,
\* identified by the ordinal of the commit.
RecordPass(in) ==
    /\ status = "building"
    /\ Len(passes) < MaxPasses
    /\ commits' = commits + 1
    /\ passes' = PushPass(passes,
                          [read |-> in.read, write |-> in.write,
                           render_fn |-> IF in.has_fn THEN Some(commits + 1) ELSE None])
    /\ UNCHANGED <<cacheVars, viewVars, attVars, eguiVars>>
    /\ UNCHANGED <<resources, compute_pipelines, builder, issued, status,
                   resource_lifetimes, gpu_resources, resolved_pipelines,
                   resource_registry, pass_iter, transitions, log, result>>

\* a compute pipeline is registered: pushed onto compute_pipelines
RegisterComputePipeline(desc) ==
    /\ status = "building"
    /\ Len(compute_pipelines) < MaxPipes
    /\ compute_pipelines' = Append(compute_pipelines, desc)
    /\ UNCHANGED <<cacheVars, viewVars, attVars, eguiVars>>
    /\ UNCHANGED <<passes, resources, builder, issued, commits, status,
                   resource_lifetimes, gpu_resources, resolved_pipelines,
                   resource_registry, pass_iter, transitions, log, result>>

\* ------------------------------------------------ resource lifetimes
\* a scan that looks at the reads only
AccessesReadOnly(pass) == pass.read

\* pass.read.iter().chain(pass.write.iter())
Accesses(pass) == pass.read \o pass.write

\* a fold that assigns instead of taking the max
LastAccessAssigned(last_access, pass_idx) == pass_idx

\* res.last_access = res.last_access.max(pass_idx)
LastAccess(last_access, pass_idx) == Max(last_access, pass_idx)

\* resource_lifetimes[res_access.handle.id as usize] panics when out of bounds
IndexOutOfBounds(ps, n) ==
    \E i \in 1..Len(ps) : \E k \in 1..Len(Accesses(ps[i])) :
        Accesses(ps[i])[k].handle.id >= n

RECURSIVE FoldAccesses(_, _, _)
FoldAccesses(lt, refs, pass_idx) ==
    IF refs = << >> THEN lt
    ELSE FoldAccesses(
            [lt EXCEPT ![Head(refs).handle.id + 1].last_access = LastAccess(@, pass_idx)],
            Tail(refs), pass_idx)

RECURSIVE FoldPasses(_, _, _)
FoldPasses(lt, ps, pass_idx) ==
    IF ps = << >> THEN lt
    ELSE FoldPasses(FoldAccesses(lt, Accesses(Head(ps)), pass_idx), Tail(ps), pass_idx + 1)

calculate_resource_lifetimes(ps, res) ==
    FoldPasses([i \in 1..Len(res) |->
                    [first_access |-> res[i].create_pass_idx,
                     last_access |-> res[i].create_pass_idx]],
               ps, 0)

\* ------------------------------------------------------------ execute
\* one call execute makes: what was called, on which index or closure, what it returned
LogEntry(op, arg, ret) == [op |-> op, arg |-> arg, ret |-> ret]

\* execute, up to the lifetimes
ExecuteBegin ==
    /\ status = "building"
    /\ IF IndexOutOfBounds(passes, Len(resources))
       THEN /\ status' = "panic"
            /\ UNCHANGED resource_lifetimes
       ELSE /\ status' = "materialize"
            /\ resource_lifetimes' = Some(calculate_resource_lifetimes(passes, resources))
    /\ UNCHANGED <<cacheVars, viewVars, attVars, eguiVars>>
    /\ UNCHANGED <<passes, resources, compute_pipelines, builder, issued, commits,
                   gpu_resources, resolved_pipelines, resource_registry, pass_iter,
                   transitions, log, result>>

\* a map that stops after the first creation record
MaterializeDoneAfterFirst(gpu, res) == Len(gpu) >= 1 \/ Len(res) = 0

\* the resources.iter().map(..) of execute has consumed every record
MaterializeDone(gpu, res) == Len(gpu) = Len(res)

\* device.create_image(desc, None).unwrap() for the next creation record
MaterializeResource(ok) ==
    /\ status = "materialize"
    /\ ~MaterializeDone(gpu_resources, resources)
    /\ log' = Append(log, LogEntry("create_image", Len(gpu_resources),
                                 IF ok THEN "Ok" ELSE "Err"))
    /\ IF ok
       THEN /\ gpu_resources' = Append(gpu_resources,
                    [image |-> Len(gpu_resources),
                     desc |-> resources[Len(gpu_resources) + 1].desc])
            /\ UNCHANGED status
       ELSE /\ status' = "panic"
            /\ UNCHANGED gpu_resources
    /\ UNCHANGED <<cacheVars, viewVars, attVars, eguiVars>>
    /\ UNCHANGED <<passes, resources, compute_pipelines, builder, issued, commits,
                   resource_lifetimes, resolved_pipelines, resource_registry, pass_iter,
                   transitions, result>>

\* .collect() of gpu_resources
MaterializeCollect ==
    /\ status = "materialize"
    /\ MaterializeDone(gpu_resources, resources)
    /\ status' = "resolve"
    /\ UNCHANGED <<cacheVars, viewVars, attVars, eguiVars>>
    /\ UNCHANGED <<passes, resources, compute_pipelines, builder, issued, commits,
                   resource_lifetimes, gpu_resources, resolved_pipelines,
                   resource_registry, pass_iter, transitions, log, result>>

\* an execute that leaves the pipelines to be resolved later
ResolveDoneAtOnce(rp, cp) == TRUE

\* the compute_pipelines.iter().map(..) of execute has consumed every entry
ResolveDone(rp, cp) == Len(rp) = Len(cp)

\* params.pipeline_cache.register_compute(path, desc) for the next pipeline
ResolvePipeline ==
    /\ status = "resolve"
    /\ ~ResolveDone(resolved_pipelines, compute_pipelines)
    /\ log' = Append(log, LogEntry("register_compute", Len(resolved_pipelines), "Ok"))
    /\ resolved_pipelines' = Append(resolved_pipelines,
            [handle |-> Len(resolved_pipelines),
             desc |-> compute_pipelines[Len(resolved_pipelines) + 1]])
    /\ UNCHANGED <<cacheVars, viewVars, attVars, eguiVars>>
    /\ UNCHANGED <<passes, resources, compute_pipelines, builder, issued, commits, status,
                   resource_lifetimes, gpu_resources, resource_registry, pass_iter,
                   transitions, result>>

\* ResourceRegistry { resources: gpu_resources, compute_pipelines, .. }
BuildRegistry ==
    /\ status = "resolve"
    /\ ResolveDone(resolved_pipelines, compute_pipelines)
    /\ resource_registry' = Some([resources |-> gpu_resources,
                                  compute_pipelines |-> resolved_pipelines])
    /\ status' = "passes"
    /\ UNCHANGED <<cacheVars, viewVars, attVars, eguiVars>>
    /\ UNCHANGED <<passes, resources, compute_pipelines, builder, issued, commits,
                   resource_lifetimes, gpu_resources, resolved_pipelines, pass_iter,
                   transitions, log, result>>

\* a gathering that chains the writes before the reads
GatherTransitionsWritesFirst(pass, registry) ==
    [k \in 1..Len(pass.write \o pass.read) |->
        [resource |-> registry.resources[(pass.write \o pass.read)[k].handle.id + 1],
         access |-> (pass.write \o pass.read)[k].access]]

\* the transitions list gathered for one pass
GatherTransitions(pass, registry) ==
    [k \in 1..Len(Accesses(pass)) |->
        [resource |-> registry.resources[Accesses(pass)[k].handle.id + 1],
         access |-> Accesses(pass)[k].access]]

\* an execute that drops what the closure returned
IsErrIgnored(outcome) == FALSE

\* the `?` applied to what the closure returned
IsErr(outcome) == outcome # "Ok"

\* a loop that takes the first pass again and again
NextPassAlwaysFirst(ps, n) == ps[1]

\* the pass the loop of execute takes next: self.passes.into_iter()
NextPass(ps, n) == ps[n + 1]

\* one iteration of `for pass in self.passes.into_iter()`
RunPass(outcome) ==
    /\ status = "passes"
    /\ pass_iter < Len(passes)
    /\ LET pass == NextPass(passes, pass_iter)
           registry == Unwrap(resource_registry)
       IN IF \E k \in 1..Len(Accesses(pass)) :
                Accesses(pass)[k].handle.id >= Len(registry.resources)
          THEN /\ status' = "panic"
               /\ UNCHANGED <<transitions, log, pass_iter, result>>
          ELSE /\ transitions' = GatherTransitions(pass, registry)
               /\ IF ~IsSome(pass.render_fn)
                  THEN /\ status' = "panic"
                       /\ UNCHANGED <<log, pass_iter, result>>
                  ELSE /\ log' = Append(log, LogEntry("render_fn", Unwrap(pass.render_fn),
                                                        outcome))
                       /\ pass_iter' = pass_iter + 1
                       /\ IF IsErr(outcome)
                          THEN /\ status' = "err"
                               /\ result' = Some(outcome)
                          ELSE UNCHANGED <<status, result>>
    /\ UNCHANGED <<cacheVars, viewVars, attVars, eguiVars>>
    /\ UNCHANGED <<passes, resources, compute_pipelines, builder, issued, commits,
                   resource_lifetimes, gpu_resources, resolved_pipelines,
                   resource_registry>>

\* Ok(())
ExecuteReturn ==
    /\ status = "passes"
    /\ pass_iter = Len(passes)
    /\ status' = "ok"
    /\ UNCHANGED <<cacheVars, viewVars, attVars, eguiVars>>
    /\ UNCHANGED <<passes, resources, compute_pipelines, builder, issued, commits,
                   resource_lifetimes, gpu_resources, resolved_pipelines,
                   resource_registry, pass_iter, transitions, log, result>>

Next ==
    \/ \E info \in GraphResourceCreateInfoInputs : CreateRawResource(info)
    \/ AddPass
    \/ \E in \in RecordedPassInputs : RecordPass(in)
    \/ \E desc \in PipelineDescs : RegisterComputePipeline(desc)
    \/ ExecuteBegin
    \/ \E ok \in BOOLEAN : MaterializeResource(ok)
    \/ MaterializeCollect
    \/ ResolvePipeline
    \/ BuildRegistry
    \/ \E outcome \in {"Ok"} \cup ClosureErrors : RunPass(outcome)
    \/ ExecuteReturn

Spec == Init /\ [][Next]_vars

\* ------------------------------------------- FramebufferCache::get_or_create
Min(a, b) == IF a <= b THEN a ELSE b

\* what the device answers when it cannot create a framebuffer
DeviceErrors == {"ERROR_OUT_OF_DEVICE_MEMORY"}

\* anyhow::Result<vk::Framebuffer>, and the unwinding of a panic
Ok(fb) == [kind |-> "Ok", fb |-> fb, err |-> ""]
Err(e) == [kind |-> "Err", fb |-> 0, err |-> e]
Panicked == [kind |-> "Panic", fb |-> 0, err |-> ""]

\* a lock that never waits
LockAlwaysFree(l) == TRUE

\* self.entries.lock() returns once no one holds the mutex
LockFree(l) == l = None

\* a lookup that never finds the key
GetNothing(es, key) == None

\* entries.get(&key)
Get(es, key) == IF key \in DOMAIN es THEN Some(es[key]) ELSE None

\* an insert that starts the map afresh
InsertEvicting(es, key, entry) == [k \in {key} |-> entry]

\* entries.insert(key, entry)
Insert(es, key, entry) ==
    [k \in (DOMAIN es) \cup {key} |-> IF k = key THEN entry ELSE es[k]]

\* the colour attachments: color_attachment_desc.iter().zip(key.color_attachments.iter())
ColorAttachmentInfos(descs, key) ==
    [i \in 1..Min(Len(descs), Len(key.color_attachments)) |->
        [width |-> key.dims[1], height |-> key.dims[2],
         flags |-> key.color_attachments[i][2], layer_count |-> 1,
         view_format |-> descs[i].format,
         usage |-> key.color_attachments[i][1]]]

\* the attachment pushed when key.use_depth_stencil
DepthAttachmentInfo(desc, key) ==
    [width |-> key.dims[1], height |-> key.dims[2],
     flags |-> "", layer_count |-> 1,
     view_format |-> desc.format,
     usage |-> "DEPTH_STENCIL_ATTACHMENT"]

\* self.depth_attachment_desc.unwrap() panics on None
DepthUnwrapPanics(depth, key) == key.use_depth_stencil /\ ~IsSome(depth)

AttachmentInfos(descs, depth, key) ==
    IF key.use_depth_stencil
    THEN Append(ColorAttachmentInfos(descs, key), DepthAttachmentInfo(Unwrap(depth), key))
    ELSE ColorAttachmentInfos(descs, key)

\* fbo_desc
FramebufferCreateInfo(rp, key, attachments) ==
    [flags |-> "IMAGELESS_KHR", render_pass |-> rp,
     width |-> key.dims[1], height |-> key.dims[2], layers |-> 1,
     attachment_count |-> Len(attachments),
     attachment_image_infos |-> attachments]

InCall == {t \in Threads : t_pc[t] # "idle"}

\* the mutex guard is dropped and the call ends with `res`
EndCall(t, res, device_calls) ==
    /\ lock' = None
    /\ calls' = Append(calls, [thread |-> t, key |-> Unwrap(t_key[t]), result |-> res,
                               device_calls |-> device_calls])
    /\ t_pc' = [t_pc EXCEPT ![t] = "idle"]
    /\ t_key' = [t_key EXCEPT ![t] = None]
    /\ t_entry' = [t_entry EXCEPT ![t] = None]

\* a thread calls get_or_create(device, key)
GetOrCreate(t, key) ==
    /\ t_pc[t] = "idle"
    /\ Len(calls) + Cardinality(InCall) < MaxCalls
    /\ t_pc' = [t_pc EXCEPT ![t] = "lock"]
    /\ t_key' = [t_key EXCEPT ![t] = Some(key)]
    /\ t_device_calls' = [t_device_calls EXCEPT ![t] = 0]
    /\ UNCHANGED <<color_attachment_desc, depth_attachment_desc, render_pass, entries,
                   lock, t_entry, calls, framebuffers>>
    /\ UNCHANGED <<rgVars, viewVars, attVars, eguiVars>>

\* let mut entries = self.entries.lock();
AcquireLock(t) ==
    /\ t_pc[t] = "lock"
    /\ LockFree(lock)
    /\ lock' = Some(t)
    /\ t_pc' = [t_pc EXCEPT ![t] = "get"]
    /\ UNCHANGED <<color_attachment_desc, depth_attachment_desc, render_pass, entries,
                   t_key, t_entry, t_device_calls, calls, framebuffers>>
    /\ UNCHANGED <<rgVars, viewVars, attVars, eguiVars>>

\* if let Some(entry) = entries.get(&key) { Ok(*entry) } else { .. }
LookUp(t) ==
    /\ t_pc[t] = "get"
    /\ LET found == Get(entries, Unwrap(t_key[t]))
       IN IF IsSome(found)
          THEN /\ EndCall(t, Ok(Unwrap(found)), t_device_calls[t])
               /\ UNCHANGED t_device_calls
          ELSE /\ t_pc' = [t_pc EXCEPT ![t] = "create"]
               /\ UNCHANGED <<lock, t_key, t_entry, t_device_calls, calls>>
    /\ UNCHANGED <<color_attachment_desc, depth_attachment_desc, render_pass, entries,
                   framebuffers>>
    /\ UNCHANGED <<rgVars, viewVars, attVars, eguiVars>>

\* a failed creation that still stores a (null) framebuffer under the key
EntriesWithNullInserted(es, key) == [k \in (DOMAIN es) \cup {key} |-> IF k = key THEN 0 ELSE es[k]]

\* what the failed creation leaves in the map: `?` returns before the insert
EntriesAfterFailure(es, key) == es

\* the miss: the attachments, fbo_desc and device.create_framebuffer(&fbo_desc, None)?
CreateFramebuffer(t, ok, e) ==
    /\ t_pc[t] = "create"
    /\ LET key == Unwrap(t_key[t])
       IN IF DepthUnwrapPanics(depth_attachment_desc, key)
          THEN /\ EndCall(t, Panicked, t_device_calls[t])
               /\ UNCHANGED <<t_device_calls, framebuffers, entries>>
          ELSE /\ t_device_calls' = [t_device_calls EXCEPT ![t] = @ + 1]
               /\ IF ok
                  THEN /\ framebuffers' = Append(framebuffers,
                            FramebufferCreateInfo(render_pass, key,
                                AttachmentInfos(color_attachment_desc,
                                                depth_attachment_desc, key)))
                       /\ t_entry' = [t_entry EXCEPT ![t] = Some(Len(framebuffers) + 1)]
                       /\ t_pc' = [t_pc EXCEPT ![t] = "insert"]
                       /\ UNCHANGED <<lock, t_key, calls, entries>>
                  ELSE /\ EndCall(t, Err(e), t_device_calls[t] + 1)
                       /\ entries' = EntriesAfterFailure(entries, key)
                       /\ UNCHANGED framebuffers
    /\ UNCHANGED <<color_attachment_desc, depth_attachment_desc, render_pass>>
    /\ UNCHANGED <<rgVars, viewVars, attVars, eguiVars>>

\* entries.insert(key, entry); Ok(entry)
InsertEntry(t) ==
    /\ t_pc[t] = "insert"
    /\ entries' = Insert(entries, Unwrap(t_key[t]), Unwrap(t_entry[t]))
    /\ EndCall(t, Ok(Unwrap(t_entry[t])), t_device_calls[t])
    /\ UNCHANGED <<color_attachment_desc, depth_attachment_desc, render_pass,
                   t_device_calls, framebuffers>>
    /\ UNCHANGED <<rgVars, viewVars, attVars, eguiVars>>

NextCache ==
    \/ \E t \in Threads : \E key \in FramebufferCacheKeyInputs : GetOrCreate(t, key)
    \/ \E t \in Threads : AcquireLock(t)
    \/ \E t \in Threads : LookUp(t)
    \/ \E t \in Threads : \E ok \in BOOLEAN : \E e \in DeviceErrors :
            CreateFramebuffer(t, ok, e)
    \/ \E t \in Threads : InsertEntry(t)

\* a cache as create_render_pass builds it, with any attachment descriptors
InitCacheSpec ==
    /\ InitGraph
    /\ \E colors \in SeqsUpTo({RenderPassAttachmentDesc(f) : f \in Formats}, MaxColors) :
       \E depth \in {None} \cup {Some(RenderPassAttachmentDesc(f)) : f \in DepthFormats} :
            InitCache(colors, depth)
    /\ InitView
    /\ InitAttachment("R16G16B16A16_SFLOAT")
    /\ InitEgui

SpecCache == InitCacheSpec /\ [][NextCache]_vars

\* ------------------------------------------------ RenderPassAttachmentDesc
LoadOps == {"LOAD", "CLEAR", "DONT_CARE"}
StoreOps == {"STORE", "DONT_CARE"}
AttachmentFormats == Formats \cup DepthFormats
Modifiers == {"garbage_input", "clear_input", "discard_output"}

\* self.load_op = vk::AttachmentLoadOp::DONT_CARE
garbage_input(d) == [d EXCEPT !.load_op = "DONT_CARE"]

\* self.load_op = vk::AttachmentLoadOp::CLEAR
clear_input(d) == [d EXCEPT !.load_op = "CLEAR"]

\* a discard_output that writes DONT_CARE to the load op
discard_output_on_load(d) == [d EXCEPT !.load_op = "DONT_CARE"]

\* self.store_op = vk::AttachmentStoreOp::DONT_CARE
discard_output(d) == [d EXCEPT !.store_op = "DONT_CARE"]

\* desc.garbage_input()
GarbageInput ==
    /\ Len(att_mods) < MaxMods
    /\ att_desc' = garbage_input(att_desc)
    /\ att_mods' = Append(att_mods, "garbage_input")
    /\ UNCHANGED <<rgVars, cacheVars, viewVars, eguiVars>>

\* desc.clear_input()
ClearInput ==
    /\ Len(att_mods) < MaxMods
    /\ att_desc' = clear_input(att_desc)
    /\ att_mods' = Append(att_mods, "clear_input")
    /\ UNCHANGED <<rgVars, cacheVars, viewVars, eguiVars>>

\* desc.discard_output()
DiscardOutput ==
    /\ Len(att_mods) < MaxMods
    /\ att_desc' = discard_output(att_desc)
    /\ att_mods' = Append(att_mods, "discard_output")
    /\ UNCHANGED <<rgVars, cacheVars, viewVars, eguiVars>>

NextAttachment ==
    \/ GarbageInput
    \/ ClearInput
    \/ DiscardOutput

\* a descriptor as new() builds it, for any format
InitAttachmentSpec ==
    /\ InitGraph
    /\ InitCache(<< >>, None)
    /\ InitView
    /\ \E format \in AttachmentFormats : InitAttachment(format)
    /\ InitEgui

SpecAttachment == InitAttachmentSpec /\ [][NextAttachment]_vars

\* ------------------------------------------------ ViewCache and its keys
\* the images that own views (Arc<Image> allocations), and view descriptors
Owners == {"imageA", "imageB"}
ViewDescs == {"ImageViewDesc0", "ImageViewDesc1"}

\* ImageViewCacheKey { image: Weak<Image>, view_desc }
ImageViewCacheKeyInputs == [image : Owners, view_desc : ViewDescs]

\* PartialEq for ImageViewCacheKey: self.image.as_ptr() == other.image.as_ptr()
KeyEq(a, b) == a.image = b.image

\* Hash for ImageViewCacheKey: what is fed to the hasher, the pointer and then view_desc
KeyHash(k) == <<k.image, k.view_desc>>

\* the entries a HashMap lookup of `key` can return: their key compares equal
\* to `key`, and either what was hashed is the same or the two hashes collide
\* in the table (collide)
Found(m, key, collide) ==
    {i \in 1..Len(m) :
        /\ KeyEq(m[i].key, key)
        /\ (KeyHash(m[i].key) = KeyHash(key) \/ collide)}

\* the view cache's get_or_create: under the mutex, return the view found for
\* the key; on a miss create the view with the device and insert it, or return
\* the device's error and insert nothing
ViewGetOrCreate(key, collide, ok) ==
    /\ Len(view_calls) < MaxViewCalls
    /\ IF Found(image_views, key, collide) # {}
       THEN /\ \E i \in Found(image_views, key, collide) :
                    view_calls' = Append(view_calls,
                        [key |-> key, hit |-> TRUE, view |-> Some(image_views[i].view)])
            /\ UNCHANGED image_views
       ELSE IF ok
       THEN LET view == [id |-> Len(image_views), image |-> key.image,
                         view_desc |-> key.view_desc]
            IN /\ image_views' = Append(image_views, [key |-> key, view |-> view])
               /\ view_calls' = Append(view_calls,
                        [key |-> key, hit |-> FALSE, view |-> Some(view)])
       ELSE /\ view_calls' = Append(view_calls,
                        [key |-> key, hit |-> FALSE, view |-> None])
            /\ UNCHANGED image_views
    /\ UNCHANGED <<rgVars, cacheVars, attVars, eguiVars>>

NextView ==
    \E key \in ImageViewCacheKeyInputs : \E collide \in BOOLEAN : \E ok \in BOOLEAN :
        ViewGetOrCreate(key, collide, ok)

SpecView == Init /\ [][NextView]_vars

\* ----------------------------------------------------------- EguiBackend
\* one entry of egui_log: the operation, whether it returned or panicked, and
\* for a stored closure the finish_frame call that made it, the target image
\* stored with it and what render returned
EguiCall(op, outcome, frame, target, rendered) ==
    [op |-> op, outcome |-> outcome, frame |-> frame, target |-> target,
     rendered |-> rendered]

\* a panic ends the program: nothing is called after it
EguiAborted == egui_log # << >> /\ egui_log[Len(egui_log)].outcome = "panic"

EguiCallable == Len(egui_log) < MaxEguiCalls /\ ~EguiAborted

\* the finish_frame calls that returned so far
Frames == Cardinality({k \in 1..Len(egui_log) :
                            egui_log[k].op = "finish_frame" /\ egui_log[k].outcome = "ok"})

\* get_target_image: self.gfx.as_ref().map(|res| res.egui_texture.clone())
get_target_image(g) == IF IsSome(g) THEN Some(Unwrap(g).egui_texture) ELSE None

\* render: match self.gfx { Some(ref gfx) => .. Some(gfx.egui_texture.clone()), None => None }
render(g) == IF IsSome(g) THEN Some(Unwrap(g).egui_texture) ELSE None

\* create_graphics_resources: assert!(self.gfx.is_none()), then a new texture,
\* the pipeline, self.gfx = Some(gfx)
CreateGraphicsResources ==
    /\ EguiCallable
    /\ IF IsSome(gfx)
       THEN /\ egui_log' = Append(egui_log,
                    EguiCall("create_graphics_resources", "panic", 0, None, None))
            /\ UNCHANGED <<gfx, egui_pipeline, images>>
       ELSE /\ gfx' = Some([egui_texture |-> images])
            /\ images' = images + 1
            /\ egui_pipeline' = TRUE
            /\ egui_log' = Append(egui_log,
                    EguiCall("create_graphics_resources", "ok", 0, None, None))
    /\ UNCHANGED ui_frame
    /\ UNCHANGED <<rgVars, cacheVars, viewVars, attVars>>

\* destroy_graphics_resources: device_wait_idle().unwrap(), destroy the pipeline
\* if there is one, inner.gfx.take()
DestroyGraphicsResources(idle_ok) ==
    /\ EguiCallable
    /\ IF idle_ok
       THEN /\ egui_pipeline' = FALSE
            /\ gfx' = None
            /\ egui_log' = Append(egui_log,
                    EguiCall("destroy_graphics_resources", "ok", 0, None, None))
       ELSE /\ egui_log' = Append(egui_log,
                    EguiCall("destroy_graphics_resources", "panic", 0, None, None))
            /\ UNCHANGED <<gfx, egui_pipeline>>
    /\ UNCHANGED <<images, ui_frame>>
    /\ UNCHANGED <<rgVars, cacheVars, viewVars, attVars>>

\* finish_frame: get_target_image().unwrap(), then
\* ui_renderer.ui_frame = Some((closure, ui_target_image))
FinishFrame ==
    /\ EguiCallable
    /\ IF IsSome(get_target_image(gfx))
       THEN /\ ui_frame' = Some([frame |-> Frames + 1,
                                 target |-> Unwrap(get_target_image(gfx))])
            /\ egui_log' = Append(egui_log,
                    EguiCall("finish_frame", "ok", Frames + 1, get_target_image(gfx), None))
       ELSE /\ egui_log' = Append(egui_log, EguiCall("finish_frame", "panic", 0, None, None))
            /\ UNCHANGED ui_frame
    /\ UNCHANGED <<gfx, egui_pipeline, images>>
    /\ UNCHANGED <<rgVars, cacheVars, viewVars, attVars>>

\* the stored closure is taken out of ui_renderer.ui_frame and run:
\* inner.lock().render(..).expect("ui.render")
RunUiFrame ==
    /\ EguiCallable
    /\ IsSome(ui_frame)
    /\ LET rendered == render(gfx)
       IN egui_log' = Append(egui_log,
                EguiCall("ui_frame", IF IsSome(rendered) THEN "ok" ELSE "panic",
                         Unwrap(ui_frame).frame, Some(Unwrap(ui_frame).target), rendered))
    /\ ui_frame' = None
    /\ UNCHANGED <<gfx, egui_pipeline, images>>
    /\ UNCHANGED <<rgVars, cacheVars, viewVars, attVars>>

NextEgui ==
    \/ CreateGraphicsResources
    \/ \E idle_ok \in BOOLEAN : DestroyGraphicsResources(idle_ok)
    \/ FinishFrame
    \/ RunUiFrame

SpecEgui == Init /\ [][NextEgui]_vars

\* ===================================================================
\* Properties of the render graph (specification Spec)
\* ===================================================================
IsRenderFn(e) == e.op = "render_fn"
IsCreateImage(e) == e.op = "create_image"
IsRegisterCompute(e) == e.op = "register_compute"

\* the closure invocations, device image creations and pipeline resolutions of execute
Invoked == SelectSeq(log, IsRenderFn)
Created == SelectSeq(log, IsCreateImage)
Resolved == SelectSeq(log, IsRegisterCompute)

\* C1: execute invokes the render closures in exactly the order in which their
\* passes were committed with record_pass: the k-th closure invoked is the closure
\* of the k-th committed pass, whatever the passes read or write; so pass i's
\* closure is invoked before pass j's for all i < j.
C1_ExecutionOrder ==
    /\ \A k \in 1..Len(Invoked) : Invoked[k].arg = k
    /\ \A i \in 1..Len(Invoked) : \A j \in 1..Len(Invoked) :
            i < j => Invoked[i].arg < Invoked[j].arg
    /\ status = "ok" => Len(Invoked) = commits

\* C1 witness: an execute that ran two passes to the end, the first writing a
\* resource and the second reading one
C1_Witness ==
    /\ status = "ok"
    /\ Len(passes) = 2
    /\ passes[1].write # << >>
    /\ passes[2].read # << >>
    /\ Len(Invoked) = 2

\* C2: when the closure of pass k returns an error, execute returns that same
\* error, the closure of no later pass is invoked, and the closures of passes
\* 0..k-1 have each been invoked before it.
C2_FailurePropagation ==
    /\ \A k \in 1..Len(Invoked) :
            Invoked[k].ret # "Ok" =>
                /\ k = Len(Invoked)
                /\ status = "err"
                /\ result = Some(Invoked[k].ret)
                /\ \A i \in 1..k : Invoked[i].arg = Unwrap(passes[i].render_fn)
                /\ \A i \in 1..(k - 1) : Invoked[i].ret = "Ok"
    /\ status = "err" => Len(Invoked) >= 1 /\ Invoked[Len(Invoked)].ret # "Ok"

\* C2 witness: the second pass's closure failed after the first pass's ran
C2_Witness ==
    /\ status = "err"
    /\ Len(passes) = 2
    /\ Len(Invoked) = 2
    /\ result = Some("ErrB")

\* C3: the k-th create_raw_resource call (k from 0) returns the handle with id k
\* and version 0, whatever add_pass and record_pass calls come in between; the
\* ids are pairwise distinct and cover 0..N-1, and id k denotes the k-th creation
\* record, at every later point of the build and of execute.
C3_HandleIds ==
    /\ Len(issued) = Len(resources)
    /\ \A k \in 1..Len(issued) :
            /\ issued[k].handle = [id |-> k - 1, version |-> 0]
            /\ resources[issued[k].handle.id + 1] = issued[k].info
    /\ \A i \in 1..Len(issued) : \A j \in 1..Len(issued) :
            i # j => issued[i].handle.id # issued[j].handle.id

\* C3 witness: two creations with a pass committed and a builder handed out
C3_Witness ==
    /\ Len(issued) = 2
    /\ commits >= 1
    /\ IsSome(builder)
    /\ issued[1].info # issued[2].info

\* some recorded pass reads or writes resource id r
Accessed(r) ==
    \E i \in 1..Len(passes) : \E k \in 1..Len(Accesses(passes[i])) :
        Accesses(passes[i])[k].handle.id = r

\* C4: every computed lifetime has last_access >= first_access and
\* first_access = the resource's create_pass_idx; a resource no pass reads or
\* writes has first_access = last_access.
C4_LifetimeMonotonic ==
    IsSome(resource_lifetimes) =>
        LET lt == Unwrap(resource_lifetimes)
        IN /\ Len(lt) = Len(resources)
           /\ \A r \in 1..Len(lt) :
                /\ lt[r].last_access >= lt[r].first_access
                /\ lt[r].first_access = resources[r].create_pass_idx
                /\ ~Accessed(r - 1) => lt[r].first_access = lt[r].last_access

\* C4 witness: lifetimes of two resources, one used by a pass later than the pass
\* that created it, one created at pass 1 and used by pass 0 only
C4_Witness ==
    /\ IsSome(resource_lifetimes)
    /\ Len(resources) = 2
    /\ Unwrap(resource_lifetimes)[1].last_access > Unwrap(resource_lifetimes)[1].first_access
    /\ resources[2].create_pass_idx = 1
    /\ Accessed(1)
    /\ \A k \in 1..Len(Accesses(passes[2])) : Accesses(passes[2])[k].handle.id # 1

\* execute is past its materialization of the creation records
MaterializationOver == status = "resolve" \/ IsSome(resource_registry)

\* C5: within one execute call the device materializes every creation record
\* exactly once: no record is created twice, the records are created in list
\* order, and from the end of materialization on the number of create_image calls
\* equals the number of creation records, however many passes read or write each
\* resource; no image is created once a pass closure has run.
C5_SingleMaterialization ==
    /\ \A k \in 1..Len(Created) : Created[k].arg = k - 1
    /\ Len(Created) <= Len(resources)
    /\ MaterializationOver =>
            /\ Len(Created) = Len(resources)
            /\ \A k \in 1..Len(Created) : Created[k].ret = "Ok"
    /\ \A i \in 1..Len(log) : \A j \in 1..Len(log) :
            (i < j /\ IsRenderFn(log[i])) => ~IsCreateImage(log[j])

\* C5 witness: one resource read by both passes and written by one, a second
\* resource no pass uses; execute ran to the end with two create_image calls
C5_Witness ==
    /\ status = "ok"
    /\ Len(resources) = 2
    /\ Len(passes) = 2
    /\ Len(Created) = 2
    /\ \A i \in 1..2 : \E k \in 1..Len(passes[i].read) : passes[i].read[k].handle.id = 0
    /\ \E k \in 1..Len(passes[1].write) : passes[1].write[k].handle.id = 0
    /\ ~Accessed(1)

\* the position of a call in the phases of execute
Phase(e) == IF IsCreateImage(e) THEN 1 ELSE IF IsRegisterCompute(e) THEN 2 ELSE 3

\* C6: in every execute call all resources are materialized, in resource-list
\* order, and then all compute pipelines are resolved, in registration order,
\* before the first pass closure is invoked; from then on the registry's resource
\* list and pipeline list are what was built from them and stay so.
C6_MaterializeResolveBeforePasses ==
    /\ \A i \in 1..Len(log) : \A j \in 1..Len(log) :
            i < j => Phase(log[i]) <= Phase(log[j])
    /\ \A k \in 1..Len(Resolved) : Resolved[k].arg = k - 1
    /\ (Len(Invoked) >= 1 \/ IsSome(resource_registry)) =>
            /\ Len(Created) = Len(resources)
            /\ \A k \in 1..Len(Created) : Created[k].arg = k - 1 /\ Created[k].ret = "Ok"
            /\ Len(Resolved) = Len(compute_pipelines)
            /\ resource_registry = Some(
                    [resources |-> [k \in 1..Len(resources) |->
                                        [image |-> k - 1, desc |-> resources[k].desc]],
                     compute_pipelines |-> [k \in 1..Len(compute_pipelines) |->
                                        [handle |-> k - 1, desc |-> compute_pipelines[k]]]])

\* C6 witness: two resources and a pipeline, the second pass's closure has run
C6_Witness ==
    /\ Len(resources) = 2
    /\ Len(compute_pipelines) = 1
    /\ Len(Invoked) = 2
    /\ status = "passes"

\* C7: when the device fails to create a declared resource, execute returns an
\* error to its caller and no pass closure is invoked.
C7_CreationFailureReturned ==
    (\E k \in 1..Len(Created) : Created[k].ret = "Err") =>
        /\ status = "err"
        /\ IsSome(result)
        /\ Len(Invoked) = 0

\* ===================================================================
\* Properties of the framebuffer cache (specification SpecCache)
\* ===================================================================
\* the calls before call j that returned Ok for the same key
EarlierOk(j) ==
    {i \in 1..(j - 1) : calls[i].key = calls[j].key /\ calls[i].result.kind = "Ok"}

\* C8: a get_or_create call whose key equals the key of an earlier successful
\* call returns the framebuffer that call returned and makes no device
\* create_framebuffer call; a call whose key is not stored makes at most one
\* device call, and when the device creates the framebuffer the call made exactly
\* one device call, the framebuffer is stored under the key and is what the call
\* returned.
C8_GetOrCreate ==
    \A j \in 1..Len(calls) :
        /\ EarlierOk(j) # {} =>
                /\ calls[j].device_calls = 0
                /\ \A i \in EarlierOk(j) : calls[j].result = calls[i].result
        /\ EarlierOk(j) = {} =>
                /\ calls[j].device_calls <= 1
                /\ calls[j].result.kind = "Ok" =>
                        /\ calls[j].device_calls = 1
                        /\ calls[j].key \in DOMAIN entries
                        /\ entries[calls[j].key] = calls[j].result.fb
                        /\ calls[j].result.fb \in 1..Len(framebuffers)
                        /\ framebuffers[calls[j].result.fb].width = calls[j].key.dims[1]
                        /\ framebuffers[calls[j].result.fb].height = calls[j].key.dims[2]

\* C8 witness: a miss that created a framebuffer with a colour and a depth
\* attachment, then a hit on the same key by the other thread
C8_Witness ==
    /\ Len(calls) = 2
    /\ calls[1].key = calls[2].key
    /\ calls[1].thread # calls[2].thread
    /\ calls[1].result.kind = "Ok" /\ calls[1].device_calls = 1
    /\ calls[2].result = calls[1].result /\ calls[2].device_calls = 0
    /\ Len(framebuffers) = 1
    /\ framebuffers[1].attachment_count = 2

\* the call thread t is in ends in this step with an error
FailsNow(t) ==
    /\ t_pc[t] = "create"
    /\ Len(calls') = Len(calls) + 1
    /\ calls'[Len(calls')].thread = t
    /\ calls'[Len(calls')].result.kind = "Err"

\* in a step in which a call fails, the map is left as it was, the lock is
\* released and the device was called once
StepOfFailure ==
    \A t \in Threads :
        FailsNow(t) =>
            /\ entries' = entries
            /\ lock' = None
            /\ calls'[Len(calls')].device_calls = 1

\* a call after a failed one with the same key, nothing stored for the key yet,
\* goes to the device
RetryAfterFailure ==
    \A i \in 1..Len(calls) : \A j \in 1..Len(calls) :
        (/\ i < j
         /\ calls[i].key = calls[j].key
         /\ calls[i].result.kind = "Err"
         /\ EarlierOk(j) = {}) => calls[j].device_calls = 1

\* C9: a get_or_create call in which the device fails to create the framebuffer
\* returns an error, leaves the entry map exactly as it was (no entry inserted)
\* and the lock released; a later call with the same key goes to the device again.
C9_FailureLeavesCache == [][StepOfFailure]_vars /\ []RetryAfterFailure

\* C9 witness: a creation that failed, then a call with the same key that went
\* to the device again and created the framebuffer
C9_Witness ==
    /\ Len(calls) = 2
    /\ calls[1].result.kind = "Err"
    /\ calls[2].key = calls[1].key
    /\ calls[2].result.kind = "Ok" /\ calls[2].device_calls = 1
    /\ lock = None
    /\ DOMAIN entries = {calls[2].key}

\* C10: get_or_create is atomic among the callers of one cache: at most one
\* thread is between the lock and its release; for a key some caller got a
\* framebuffer for, the device created exactly one framebuffer, and every caller
\* that got a framebuffer for that key got that one; every framebuffer created
\* is stored under its own key (no second creation, no lost insert).
C10_Atomic ==
    /\ Cardinality({t \in Threads : t_pc[t] \in {"get", "create", "insert"}}) <= 1
    /\ \A t \in Threads : t_pc[t] \in {"get", "create", "insert"} => lock = Some(t)
    /\ \A i \in 1..Len(calls) : \A j \in 1..Len(calls) :
            (/\ calls[i].key = calls[j].key
             /\ calls[i].result.kind = "Ok"
             /\ calls[j].result.kind = "Ok") =>
                /\ calls[i].result.fb = calls[j].result.fb
                /\ i # j => calls[i].device_calls + calls[j].device_calls <= 1
    /\ \A j \in 1..Len(calls) :
            calls[j].result.kind = "Ok" =>
                \E i \in 1..j : /\ calls[i].key = calls[j].key
                                /\ calls[i].result.kind = "Ok"
                                /\ calls[i].device_calls = 1
    /\ Len(framebuffers) =
            Cardinality(DOMAIN entries) + Cardinality({t \in Threads : t_pc[t] = "insert"})
    /\ \A k \in DOMAIN entries : \A l \in DOMAIN entries :
            k # l => entries[k] # entries[l]

\* C10 witness: both threads called with the same key; one has created the
\* framebuffer and is about to insert it while the other waits for the lock
C10_Witness ==
    /\ t_pc["t1"] = "insert"
    /\ t_pc["t2"] = "lock"
    /\ t_key["t1"] = t_key["t2"]

\* C11: cache entries are never evicted or overwritten: in every step every key
\* in the map stays in it with the framebuffer it had, the map grows by at most
\* the key of the call that inserts, and that key was not in it (so each key
\* keeps the framebuffer first created for it); every call that returned a
\* framebuffer still finds it stored under its key.
C11_NoEviction ==
    /\ [][/\ \A k \in DOMAIN entries : k \in DOMAIN entries' /\ entries'[k] = entries[k]
          /\ Cardinality(DOMAIN entries') <= Cardinality(DOMAIN entries) + 1]_vars
    /\ [](\A j \in 1..Len(calls) :
            calls[j].result.kind = "Ok" =>
                /\ calls[j].key \in DOMAIN entries
                /\ entries[calls[j].key] = calls[j].result.fb)

\* C11 witness: two entries whose keys differ in the dimensions only, the first
\* call's framebuffer still stored after the second call inserted its own
C11_Witness ==
    /\ Len(calls) = 2
    /\ calls[1].result.kind = "Ok" /\ calls[2].result.kind = "Ok"
    /\ calls[1].key.dims # calls[2].key.dims
    /\ calls[1].key.color_attachments = calls[2].key.color_attachments
    /\ calls[1].key.use_depth_stencil = calls[2].key.use_depth_stencil
    /\ Cardinality(DOMAIN entries) = 2
    /\ entries[calls[1].key] = calls[1].result.fb
    /\ entries[calls[2].key] = calls[2].result.fb
    /\ calls[1].result.fb # calls[2].result.fb

\* C23: get_or_create always returns to its caller with a framebuffer or an
\* error, for every key; with a key that has use_depth_stencil set on a cache
\* without a depth attachment descriptor it returns an error, inserts nothing
\* and leaves the mutex free for later callers.
C23_AlwaysReturns ==
    /\ \A j \in 1..Len(calls) :
            /\ calls[j].result.kind \in {"Ok", "Err"}
            /\ (calls[j].key.use_depth_stencil /\ ~IsSome(depth_attachment_desc))
                    => /\ calls[j].result.kind = "Err"
                       /\ calls[j].key \notin DOMAIN entries
    /\ InCall = {} => lock = None

\* C24: the framebuffer created on a miss has one attachment description per
\* entry of key.color_attachments, in order, plus one more when
\* key.use_depth_stencil is set: attachment_count is the number of the key's
\* colour attachments plus one for depth-stencil, whatever the number of colour
\* attachment descriptors of the render pass.
C24_AttachmentPerKeyEntry ==
    \A j \in 1..Len(calls) :
        (calls[j].result.kind = "Ok" /\ calls[j].device_calls = 1) =>
            LET key == calls[j].key
                fbo_desc == framebuffers[calls[j].result.fb]
            IN /\ fbo_desc.attachment_count =
                        Len(key.color_attachments) + (IF key.use_depth_stencil THEN 1 ELSE 0)
               /\ Len(fbo_desc.attachment_image_infos) = fbo_desc.attachment_count
               /\ \A i \in 1..Len(key.color_attachments) :
                        /\ fbo_desc.attachment_image_infos[i].usage = key.color_attachments[i][1]
                        /\ fbo_desc.attachment_image_infos[i].flags = key.color_attachments[i][2]

\* ===================================================================
\* More properties of the render graph (specification Spec)
\* ===================================================================
\* the pass (1-based) whose accesses execute gathered last, 0 before the first:
\* the closure of that pass was invoked, or its missing closure stopped execute
GatheredFor ==
    IF ~IsSome(resource_registry) THEN 0
    ELSE IF status = "panic" THEN pass_iter + 1 ELSE pass_iter

\* the entries of the gathered list that pair resource `res` with access `acc`
EntriesFor(res, acc) ==
    {k \in 1..Len(transitions) :
        transitions[k].resource = res /\ transitions[k].access = acc}

\* C13: when a pass declares a read access to the same handle twice, the access
\* list execute gathers for that pass (here: a pass whose closure it goes on to
\* invoke) holds a single entry for that resource.
C13_DuplicateReadsMerged ==
    (GatheredFor >= 1 /\ status # "panic") =>
        LET pass == passes[GatheredFor]
        IN \A a \in 1..Len(pass.read) : \A b \in 1..Len(pass.read) :
                (a # b /\ pass.read[a] = pass.read[b]) =>
                    Cardinality(EntriesFor(
                        Unwrap(resource_registry).resources[pass.read[a].handle.id + 1],
                        pass.read[a].access)) = 1

\* C14: add_pass returns a builder whose pass_idx is the number of passes
\* recorded at the time of the call and leaves the pass list, the resource list
\* and the compute-pipeline list unchanged; the pass list changes only in a
\* record_pass step, by exactly one element appended at its end.
C14_AddPassAndRecordPass ==
    /\ [][builder' # builder =>
            /\ IsSome(builder')
            /\ Unwrap(builder').pass_idx = Len(passes)
            /\ Unwrap(builder').pass = RecordedPassDefault
            /\ passes' = passes
            /\ resources' = resources
            /\ compute_pipelines' = compute_pipelines]_vars
    /\ [][passes' # passes =>
            /\ commits' = commits + 1
            /\ Len(passes') = Len(passes) + 1
            /\ SubSeq(passes', 1, Len(passes)) = passes]_vars
    /\ [](IsSome(builder) => Unwrap(builder).pass_idx <= Len(passes))

\* C14 witness: a builder handed out after one pass was recorded, with a
\* resource and a pipeline in the graph; a second pass recorded since
C14_Witness ==
    /\ IsSome(builder)
    /\ Unwrap(builder).pass_idx = 1
    /\ Len(passes) = 2
    /\ Len(resources) = 1
    /\ Len(compute_pipelines) = 1
    /\ status = "building"

\* C15: a recorded pass with no render closure is rejected when it is committed,
\* so execute never stops at a pass without a closure after the closures of
\* earlier passes have run.
C15_MissingClosureRejectedAtBuild ==
    ~ /\ status = "panic"
      /\ IsSome(resource_registry)
      /\ pass_iter >= 1
      /\ Len(Invoked) = pass_iter
      /\ ~IsSome(passes[pass_iter + 1].render_fn)

\* C16: a pass that references a handle whose id is not the index of a creation
\* record of this graph is never admitted to the pass list, so once execute
\* has been called every handle id in the reads and writes of every recorded
\* pass is less than the number of creation records.
C16_ForeignHandleRejectedAtBuild ==
    status # "building" =>
        \A i \in 1..Len(passes) :
            /\ \A k \in 1..Len(passes[i].read) :
                    passes[i].read[k].handle.id < Len(resources)
            /\ \A k \in 1..Len(passes[i].write) :
                    passes[i].write[k].handle.id < Len(resources)

\* the invocations of the closure committed as number c
InvocationsOf(c) == {k \in 1..Len(Invoked) : Invoked[k].arg = c}

\* C17: no closure is invoked twice; an execute call invokes the closure of a
\* recorded pass at most once, and one that returns Ok has invoked the closure
\* of every recorded pass exactly once.
C17_ClosureInvokedOnce ==
    /\ \A a \in 1..Len(Invoked) : \A b \in 1..Len(Invoked) :
            a # b => Invoked[a].arg # Invoked[b].arg
    /\ \A i \in 1..Len(passes) :
            IsSome(passes[i].render_fn) =>
                Cardinality(InvocationsOf(Unwrap(passes[i].render_fn))) <= 1
    /\ status = "ok" =>
            \A i \in 1..Len(passes) :
                /\ IsSome(passes[i].render_fn)
                /\ Cardinality(InvocationsOf(Unwrap(passes[i].render_fn))) = 1

\* C17 witness: an execute that returned Ok for two recorded passes
C17_Witness ==
    /\ status = "ok"
    /\ Len(passes) = 2
    /\ Len(Invoked) = 2
    /\ Invoked[1].ret = "Ok"
    /\ Invoked[2].ret = "Ok"

\* the indices (0-based) of the recorded passes with id r in their read or write list
Touching(r) ==
    {i - 1 : i \in {j \in 1..Len(passes) :
                        \/ \E k \in 1..Len(passes[j].read) : passes[j].read[k].handle.id = r
                        \/ \E k \in 1..Len(passes[j].write) : passes[j].write[k].handle.id = r}}

MaxOf(S) == CHOOSE m \in S : \A x \in S : x <= m

\* C18: for every resource r the computed lifetime starts at r's
\* create_pass_idx and ends at the max of r's create_pass_idx and the indices
\* of the recorded passes that have r's id in their read or write list; a pass
\* that does not reference r has no part in it.
C18_LastAccessIsMax ==
    IsSome(resource_lifetimes) =>
        /\ Len(Unwrap(resource_lifetimes)) = Len(resources)
        /\ \A r \in 1..Len(resources) :
                /\ Unwrap(resource_lifetimes)[r].first_access = resources[r].create_pass_idx
                /\ Unwrap(resource_lifetimes)[r].last_access =
                        MaxOf({resources[r].create_pass_idx} \cup Touching(r - 1))

\* C18 witness: lifetimes of two resources, the first created for pass 0 and
\* only written, by pass 1; the second created for pass 1 and referenced by pass 0 alone
C18_Witness ==
    /\ IsSome(resource_lifetimes)
    /\ Len(resources) = 2
    /\ resources[1].create_pass_idx = 0
    /\ Touching(0) = {1}
    /\ passes[2].read = << >>
    /\ Unwrap(resource_lifetimes)[1].last_access = 1
    /\ resources[2].create_pass_idx = 1
    /\ Touching(1) = {0}
    /\ Unwrap(resource_lifetimes)[2].last_access = 1

\* the access list of a pass: one entry per declared access, the reads in
\* declaration order and then the writes in declaration order
DeclaredAccessList(pass, registry) ==
    [k \in 1..(Len(pass.read) + Len(pass.write)) |->
        IF k <= Len(pass.read)
        THEN [resource |-> registry.resources[pass.read[k].handle.id + 1],
              access |-> pass.read[k].access]
        ELSE [resource |-> registry.resources[pass.write[k - Len(pass.read)].handle.id + 1],
              access |-> pass.write[k - Len(pass.read)].access]]

\* C19: the access list execute holds when it invokes the closure of a pass has
\* one entry per declared access of that pass, reads first and then writes, in
\* declaration order, each pairing the materialized resource at registry index
\* handle.id with the declared access type; it holds no entry of another pass,
\* and none before the first pass.
C19_AccessListPerPass ==
    /\ GatheredFor = 0 => transitions = << >>
    /\ GatheredFor >= 1 =>
            transitions = DeclaredAccessList(passes[GatheredFor], Unwrap(resource_registry))

\* C19 witness: the closure of the second pass has been invoked; that pass reads
\* resource 0 and writes resource 1, the first pass declared something else
C19_Witness ==
    /\ GatheredFor = 2
    /\ Len(Invoked) = 2
    /\ Len(passes[2].read) = 1
    /\ Len(passes[2].write) = 1
    /\ passes[2].read[1].handle.id = 0
    /\ passes[2].write[1].handle.id = 1
    /\ passes[1].read # passes[2].read
    /\ Len(transitions) = 2
    /\ transitions[1].resource # transitions[2].resource

\* C21: the computed lifetime of a resource covers all of its uses: every
\* recorded pass with r's id in its read or write list has an index p with
\* first_access(r) <= p <= last_access(r); and first_access(r) is the index of
\* a recorded pass: first_access(r) < number of recorded passes.
C21_LifetimeCoversUses ==
    IsSome(resource_lifetimes) =>
        \A r \in 1..Len(resources) :
            /\ \A p \in Touching(r - 1) :
                    /\ Unwrap(resource_lifetimes)[r].first_access <= p
                    /\ p <= Unwrap(resource_lifetimes)[r].last_access
            /\ Unwrap(resource_lifetimes)[r].first_access < Len(passes)

\* ===================================================================
\* Properties of the view-cache keys (specification SpecView)
\* ===================================================================
\* the keys the view cache has stored or was asked for
KeysSeen ==
    {image_views[i].key : i \in 1..Len(image_views)}
        \cup {view_calls[j].key : j \in 1..Len(view_calls)}

\* C12: two ImageViewCacheKey values are equal iff they reference the same
\* owner image and carry equal view descriptors; so a lookup that hits returns
\* a view of the key's owner with the key's view descriptor, never the entry of
\* another owner or of another view descriptor.
C12_KeyEqualIffSameOwnerAndDesc ==
    /\ \A k1 \in KeysSeen : \A k2 \in KeysSeen :
            KeyEq(k1, k2) <=> (k1.image = k2.image /\ k1.view_desc = k2.view_desc)
    /\ \A j \in 1..Len(view_calls) :
            view_calls[j].hit =>
                /\ Unwrap(view_calls[j].view).image = view_calls[j].key.image
                /\ Unwrap(view_calls[j].view).view_desc = view_calls[j].key.view_desc

\* C22: equality and hash of ImageViewCacheKey are consistent: keys that
\* compare equal feed the same data to the hasher; so a lookup with a key equal
\* to the key of an earlier stored view finds it, and the map never holds two
\* entries whose keys compare equal.
C22_EqHashConsistent ==
    /\ \A k1 \in KeysSeen : \A k2 \in KeysSeen :
            KeyEq(k1, k2) => KeyHash(k1) = KeyHash(k2)
    /\ \A j \in 1..Len(view_calls) : \A i \in 1..(j - 1) :
            (IsSome(view_calls[i].view) /\ KeyEq(view_calls[i].key, view_calls[j].key))
                => view_calls[j].hit
    /\ \A i \in 1..Len(image_views) : \A j \in 1..Len(image_views) :
            i # j => ~KeyEq(image_views[i].key, image_views[j].key)

\* ===================================================================
\* Properties of RenderPassAttachmentDesc (specification SpecAttachment)
\* ===================================================================
\* the input modifiers applied so far, in order
InputMods == SelectSeq(att_mods, LAMBDA m : m \in {"garbage_input", "clear_input"})

\* C20: new() yields load_op LOAD and store_op STORE; clear_input and
\* garbage_input change only load_op, discard_output changes only store_op,
\* none changes format or samples; each is idempotent and an input modifier
\* commutes with discard_output; so the load op is decided by the last input
\* modifier alone, the store op by whether discard_output was applied, and
\* every (load_op, store_op) pair is reached from new() by at most two modifiers.
C20_AttachmentPoliciesIndependent ==
    /\ [][att_mods' # att_mods =>
            /\ att_desc'.format = att_desc.format
            /\ att_desc'.samples = att_desc.samples
            /\ att_mods'[Len(att_mods')] \in {"garbage_input", "clear_input"}
                    => att_desc'.store_op = att_desc.store_op
            /\ att_mods'[Len(att_mods')] = "discard_output"
                    => att_desc'.load_op = att_desc.load_op]_vars
    /\ [](/\ att_desc.samples = "TYPE_1"
          /\ att_desc.load_op =
                IF InputMods = << >> THEN "LOAD"
                ELSE IF InputMods[Len(InputMods)] = "clear_input" THEN "CLEAR"
                ELSE "DONT_CARE"
          /\ att_desc.store_op =
                IF \E k \in 1..Len(att_mods) : att_mods[k] = "discard_output"
                THEN "DONT_CARE" ELSE "STORE"
          /\ clear_input(clear_input(att_desc)) = clear_input(att_desc)
          /\ garbage_input(garbage_input(att_desc)) = garbage_input(att_desc)
          /\ discard_output(discard_output(att_desc)) = discard_output(att_desc)
          /\ discard_output(clear_input(att_desc)) = clear_input(discard_output(att_desc))
          /\ discard_output(garbage_input(att_desc)) = garbage_input(discard_output(att_desc))
          /\ \A l \in LoadOps : \A s \in StoreOps :
                LET new == RenderPassAttachmentDesc(att_desc.format)
                    want == [new EXCEPT !.load_op = l, !.store_op = s]
                IN want \in {new, clear_input(new), garbage_input(new),
                             discard_output(new),
                             discard_output(clear_input(new)),
                             discard_output(garbage_input(new))})

\* C20 witness: discard_output, then clear_input, then garbage_input, on a
\* depth attachment: the input policy is the last one set, the output is discarded
C20_Witness ==
    /\ att_mods = <<"discard_output", "clear_input", "garbage_input">>
    /\ att_desc = [format |-> "D24_UNORM_S8_UINT", load_op |-> "DONT_CARE",
                   store_op |-> "DONT_CARE", samples |-> "TYPE_1"]

\* ===================================================================
\* Properties of the egui backend (specification SpecEgui)
\* ===================================================================
\* C25: the closure finish_frame stores in ui_renderer.ui_frame renders
\* successfully whenever it is run later, whatever create_graphics_resources,
\* destroy_graphics_resources and finish_frame calls came before: it finds the
\* graphics resources present, renders into the target image stored with it,
\* and does not abort; and a finish_frame that returns comes after a
\* create_graphics_resources that returned.
C25_UiFrameRenders ==
    \A k \in 1..Len(egui_log) :
        /\ egui_log[k].op = "ui_frame" =>
                /\ egui_log[k].outcome = "ok"
                /\ IsSome(egui_log[k].rendered)
                /\ egui_log[k].rendered = egui_log[k].target
        /\ (egui_log[k].op = "finish_frame" /\ egui_log[k].outcome = "ok") =>
                \E i \in 1..(k - 1) :
                    /\ egui_log[i].op = "create_graphics_resources"
                    /\ egui_log[i].outcome = "ok"
====
